---------------------------- MODULE Spec2Model ----------------------------
(***************************************************************************)
(* A model of platformio/app.py: the application-state store (class State  *)
(* and the get/set helpers built on it) and the TTL disk cache (class      *)
(* LocalCache).                                                            *)
(*                                                                         *)
(* Texts (file contents, Python strings) are sequences of one-character    *)
(* strings.  A Python value is a record [type, val] whose val is the text  *)
(* str(value) would give; a JSON value is a record [j, val].               *)
(***************************************************************************)
EXTENDS Integers, Sequences, FiniteSets, TLC

\* Every record constructor below lists its fields in the order TLC keeps them
\* in (the order in which the names first occur in the module), so that no
\* worker of TLC ever has to reorder a record another worker is reading.

(***************************************************************************)
(* Bounds of the model.                                                    *)
(***************************************************************************)
\* the processes that share one state file
NumProcs == 2

Procs == 1..NumProcs

(***************************************************************************)
(* Python values.                                                          *)
(***************************************************************************)
PyStr(t) == [type |-> "str", val |-> t]

PyInt(t) == [type |-> "int", val |-> t]

PyList(t) == [type |-> "list", val |-> t]

PyTuple(t) == [type |-> "tuple", val |-> t]

PyTrue == [type |-> "bool", val |-> <<"T", "r", "u", "e">>]

PyFalse == [type |-> "bool", val |-> <<"F", "a", "l", "s", "e">>]

PyNone == [type |-> "none", val |-> <<"N", "o", "n", "e">>]

PyBool(b) == IF b THEN PyTrue ELSE PyFalse

EmptyMap == [k \in {} |-> PyNone]

\* dict assignment d[k] = v
Put(d, k, v) == [x \in (DOMAIN d) \cup {k} |-> IF x = k THEN v ELSE d[x]]

(***************************************************************************)
(* The state document held in memory: the top-level items and the nested   *)
(* `settings` mapping (absent when hasSettings is FALSE).                  *)
(***************************************************************************)
EmptyDoc == [items |-> EmptyMap, hasSettings |-> FALSE, settings |-> EmptyMap]

(***************************************************************************)
(* json.dump / json.load on the values of a document.  A tuple is written  *)
(* as an array, and an array is read back as a list.                       *)
(***************************************************************************)
JsonEncode(v) ==
    CASE v.type = "str" -> [val |-> v.val, j |-> "string"]
      [] v.type = "int" -> [val |-> v.val, j |-> "number"]
      [] v.type = "bool" -> [val |-> v.val, j |-> "bool"]
      [] v.type = "none" -> [val |-> v.val, j |-> "null"]
      [] v.type \in {"list", "tuple"} -> [val |-> v.val, j |-> "array"]

JsonDecode(x) ==
    CASE x.j = "string" -> [type |-> "str", val |-> x.val]
      [] x.j = "number" -> [type |-> "int", val |-> x.val]
      [] x.j = "bool" -> [type |-> "bool", val |-> x.val]
      [] x.j = "null" -> [type |-> "none", val |-> x.val]
      [] x.j = "array" -> [type |-> "list", val |-> x.val]

JsonCompatible(v) == v.type \in {"str", "int", "bool", "none", "list"}

json_dump(doc) ==
    [doc |-> [items |-> [k \in DOMAIN doc.items |-> JsonEncode(doc.items[k])],
              hasSettings |-> doc.hasSettings,
              settings |-> [k \in DOMAIN doc.settings |->
                               JsonEncode(doc.settings[k])]],
     kind |-> "object"]

\* The state file: missing, unparseable text, or the text of a JSON object.
NoFile == [doc |-> EmptyDoc, kind |-> "missing"]

Garbage == [doc |-> EmptyDoc, kind |-> "garbage"]

\* util.load_json: the parsed document, or ValueError on unparseable text.
load_json(f) ==
    IF f.kind = "object"
    THEN [doc |-> [items |-> [k \in DOMAIN f.doc.items |->
                                 JsonDecode(f.doc.items[k])],
                   hasSettings |-> f.doc.hasSettings,
                   settings |-> [k \in DOMAIN f.doc.settings |->
                                    JsonDecode(f.doc.settings[k])]],
          ok |-> TRUE]
    ELSE [doc |-> EmptyDoc, ok |-> FALSE]

(***************************************************************************)
(* Text helpers: str.lower(), str.strip() and the digits int() accepts.    *)
(***************************************************************************)
UpperLetters ==
    <<"A", "B", "C", "D", "E", "F", "G", "H", "I", "J", "K", "L", "M",
      "N", "O", "P", "Q", "R", "S", "T", "U", "V", "W", "X", "Y", "Z">>

LowerLetters ==
    <<"a", "b", "c", "d", "e", "f", "g", "h", "i", "j", "k", "l", "m",
      "n", "o", "p", "q", "r", "s", "t", "u", "v", "w", "x", "y", "z">>

LowerChar(c) ==
    IF \E i \in 1..Len(UpperLetters) : UpperLetters[i] = c
    THEN LowerLetters[CHOOSE i \in 1..Len(UpperLetters) : UpperLetters[i] = c]
    ELSE c

Lower_Identity(t) == t

RECURSIVE Lower(_)
Lower(t) == IF t = <<>> THEN <<>> ELSE <<LowerChar(Head(t))>> \o Lower(Tail(t))

Digits == {"0", "1", "2", "3", "4", "5", "6", "7", "8", "9"}

RECURSIVE LStrip(_)
LStrip(t) == IF t # <<>> /\ Head(t) = " " THEN LStrip(Tail(t)) ELSE t

RECURSIVE RStrip(_)
RStrip(t) ==
    IF t # <<>> /\ t[Len(t)] = " " THEN RStrip(SubSeq(t, 1, Len(t) - 1)) ELSE t

Strip(t) == RStrip(LStrip(t))

RECURSIVE StripZeros(_)
StripZeros(t) ==
    IF Len(t) > 1 /\ Head(t) = "0" THEN StripZeros(Tail(t)) ELSE t

\* int(text): optional sign, then decimal digits, surrounding blanks ignored.
IntOfText(t) ==
    LET s == Strip(t)
        signed == s # <<>> /\ Head(s) \in {"+", "-"}
        body == IF signed THEN Tail(s) ELSE s
        ok == body # <<>> /\ \A i \in 1..Len(body) : body[i] \in Digits
        mag == StripZeros(body)
    IN  [val |-> IF ~ok THEN <<>>
                 ELSE IF signed /\ Head(s) = "-" /\ mag # <<"0">>
                      THEN <<"-">> \o mag
                      ELSE mag,
         ok |-> ok]

\* int(value) of a Python value; ok is FALSE where int() raises.
PyIntOf(v) ==
    CASE v.type = "int" -> [val |-> v.val, ok |-> TRUE]
      [] v.type = "bool" ->
            [val |-> IF v = PyTrue THEN <<"1">> ELSE <<"0">>, ok |-> TRUE]
      [] v.type = "str" -> IntOfText(v.val)
      [] OTHER -> [val |-> <<>>, ok |-> FALSE]

\* the text with every double quote turned into a single one
RECURSIVE SingleQuoted(_)
SingleQuoted(t) ==
    IF t = <<>> THEN <<>>
    ELSE <<IF Head(t) = "\"" THEN "'" ELSE Head(t)>> \o SingleQuoted(Tail(t))

\* str(value): a string is itself, a number its digits, True, False and None
\* their names, a list "[...]", a tuple of one element "(...,)", a dict
\* "{...}" with its keys in single quotes
StrOf(v) ==
    CASE v.type = "list" -> <<"[">> \o v.val \o <<"]">>
      [] v.type = "tuple" -> <<"(">> \o v.val \o <<",", ")">>
      [] v.type = "dict" -> <<"{">> \o SingleQuoted(v.val) \o <<"}">>
      [] OTHER -> v.val

(***************************************************************************)
(* The settings catalog and sanitize_setting.                              *)
(***************************************************************************)
DEFAULT_SETTINGS ==
    [check_platformio_interval |-> PyInt(<<"3">>),
     check_platforms_interval |-> PyInt(<<"7">>),
     check_libraries_interval |-> PyInt(<<"7">>),
     auto_update_platforms |-> PyFalse,
     auto_update_libraries |-> PyFalse,
     force_verbose |-> PyFalse,
     enable_ssl |-> PyFalse,
     enable_telemetry |-> PyTrue]

TrueWords ==
    {<<"t", "r", "u", "e">>, <<"y", "e", "s">>, <<"y">>, <<"1">>}

\* [ok, value, err]: the sanitized value, or the exception raised.
sanitize_setting(name, value) ==
    IF name \notin DOMAIN DEFAULT_SETTINGS
    THEN [ok |-> FALSE, value |-> value, err |-> "InvalidSettingName"]
    ELSE LET defvalue == DEFAULT_SETTINGS[name]
         IN  CASE defvalue.type = "bool" ->
                    [ok |-> TRUE,
                     value |-> IF value.type = "bool" THEN value
                               ELSE PyBool(Lower(StrOf(value)) \in TrueWords),
                     err |-> ""]
               [] defvalue.type = "int" ->
                    LET n == PyIntOf(value)
                    IN  IF n.ok
                        THEN [ok |-> TRUE, value |-> PyInt(n.val), err |-> ""]
                        ELSE [ok |-> FALSE, value |-> value,
                              err |-> "InvalidSettingValue"]
               [] OTHER -> [ok |-> TRUE, value |-> value, err |-> ""]

(***************************************************************************)
(* State of the model.                                                     *)
(*   file       the state file (appstate.json)                             *)
(*   lockfile   the lock file beside it: whether it exists, the process    *)
(*              that created it (0: a process that died before the model   *)
(*              starts), and time() - getmtime(lock_file)                  *)
(*   pc, op     each process's position and the call it runs               *)
(*   st, prev   State._state and State._prev_state of each process         *)
(*   result     what the call returned or raised                           *)
(*   pre        history: the state file when the call started (kept for    *)
(*              the single caller of Spec)                                 *)
(*   broken     history: break_lock() has removed the lock file of a       *)
(*              process that was alive inside its locked scope             *)
(*   now        time(), in whole seconds, as the cache sees it             *)
(*   root       whether the cache directory exists                         *)
(*   dirs       the shard directories in it                                *)
(*   blobs      the blob files: path -> text                               *)
(*   index      db.data: whether it exists, and its expiry=path lines      *)
(*   cres       what the last cache call returned or raised                *)
(*   cop        history: which operation the last cache call was           *)
(*   expiry     history: the expiry time of the entry set() last stored    *)
(*              under each key                                             *)
(*   stored     history: the data set() last stored under each key         *)
(*   swept      history: the keys whose entry has seen a sweep at a time   *)
(*              that was not before its expiry time                        *)
(*   fin, fout  the arguments of a call of one of the module's pure        *)
(*              functions (key_from_args, sanitize_setting) and what it    *)
(*              returned or raised                                         *)
(***************************************************************************)
VARIABLES file, lockfile, pc, op, st, prev, result, pre, broken,
          now, root, dirs, blobs, index, cres, cop, expiry, stored, swept,
          fin, fout

stateVars == <<file, lockfile, pc, op, st, prev, result, pre, broken>>

cacheVars ==
    <<now, root, dirs, blobs, index, cres, cop, expiry, stored, swept>>

fnVars == <<fin, fout>>

vars == <<stateVars, cacheVars, fnVars>>

\* (time() - getmtime(lock_file)) > 10
StaleAfter == 10

NoLock == [exists |-> FALSE, owner |-> 0, age |-> 0]

(***************************************************************************)
(* The calls a process can make, with the arguments the model draws.       *)
(***************************************************************************)
ItemNames == {"cid", "last_check"}

ItemValues == {PyStr(<<"a">>), PyList(<<"1">>), PyTuple(<<"1">>)}

Defaults == {PyNone, PyStr(<<"d">>)}

SettingNames == {"enable_telemetry", "check_platformio_interval", "bogus"}

SettingValues ==
    {PyStr(<<"Y", "e", "s">>), PyStr(<<"1", "0">>), PyStr(<<"a", "b", "c">>)}

\* getenv("PLATFORMIO_SETTING_<NAME>"): PyNone when the variable is not set
EnvValues == {PyNone, PyStr(<<"Y", "e", "s">>)}

Call(fn, name, value, default, env) ==
    [name |-> name, value |-> value, fn |-> fn, default |-> default,
     env |-> env]

NoCall == Call("none", "", PyNone, PyNone, PyNone)

Calls ==
    {Call("get_state_item", n, PyNone, d, PyNone) :
        n \in ItemNames, d \in Defaults}
    \cup {Call("set_state_item", n, v, PyNone, PyNone) :
        n \in ItemNames, v \in ItemValues}
    \cup {Call("get_setting", n, PyNone, PyNone, e) :
        n \in SettingNames, e \in EnvValues}
    \cup {Call("set_setting", n, v, PyNone, PyNone) :
        n \in SettingNames, v \in SettingValues}
    \cup {Call("reset_settings", "", PyNone, PyNone, PyNone)}

\* the call of each process that contends for the lock: the first writes one
\* item, the others another
LockCalls(p) ==
    {Call("set_state_item", IF p = 1 THEN "cid" ELSE "last_check",
          PyStr(<<"a">>), PyNone, PyNone)}

\* State(lock=True) in set_state_item, set_setting and reset_settings
WantsLock(c) == c.fn \in {"set_state_item", "set_setting", "reset_settings"}

\* get_setting with the environment variable set opens no State
OpensState(c) == ~(c.fn = "get_setting" /\ c.env # PyNone)

Pending == [val |-> PyNone, kind |-> "pending", err |-> ""]

Return(v) == [val |-> v, kind |-> "return", err |-> ""]

Raise(e) == [val |-> PyNone, kind |-> "raise", err |-> e]

InitFiles ==
    {NoFile, Garbage,
     json_dump([items |-> Put(EmptyMap, "cid", PyStr(<<"b">>)),
                hasSettings |-> FALSE, settings |-> EmptyMap]),
     json_dump([items |-> EmptyMap, hasSettings |-> TRUE,
                settings |-> Put(EmptyMap, "enable_telemetry", PyFalse)])}

\* no lock file, or one an earlier process left behind when it died
InitLocks ==
    {NoLock} \cup {[exists |-> TRUE, owner |-> 0, age |-> a] :
                      a \in {0, StaleAfter + 1}}

NoIndex == [exists |-> FALSE, lines |-> <<>>]

\* a cache directory that has never been used
CacheInit ==
    /\ now = 0
    /\ root = FALSE
    /\ dirs = {}
    /\ blobs = EmptyMap
    /\ index = NoIndex
    /\ cres = Pending
    /\ cop = "none"
    /\ expiry = EmptyMap
    /\ stored = EmptyMap
    /\ swept = {}

\* no process has called anything yet
StoreInit ==
    /\ pc = [p \in Procs |-> "idle"]
    /\ op = [p \in Procs |-> NoCall]
    /\ st = [p \in Procs |-> EmptyDoc]
    /\ prev = [p \in Procs |-> EmptyDoc]
    /\ result = [p \in Procs |-> Pending]
    /\ pre = [p \in Procs |-> NoFile]
    /\ broken = FALSE

\* no pure function is being called
NoInput == <<"none">>

FnIdle == fin = NoInput /\ fout = <<>>

InitLocals ==
    /\ StoreInit
    /\ CacheInit
    /\ FnIdle

Init ==
    /\ file \in InitFiles
    /\ lockfile \in InitLocks
    /\ InitLocals

LockInit ==
    /\ file = NoFile
    /\ lockfile \in InitLocks
    /\ InitLocals

(***************************************************************************)
(* A call starts.  get_setting with the environment variable set returns   *)
(* sanitize_setting(name, getenv(...)) and opens no State; every other     *)
(* call opens a State scope, locked for the writers.                       *)
(***************************************************************************)
EnvResult(c) ==
    LET s == sanitize_setting(c.name, c.env)
    IN  IF s.ok THEN Return(s.value) ELSE Raise(s.err)

Start(p, calls, track) ==
    /\ pc[p] = "idle"
    /\ \E c \in calls :
          /\ op' = [op EXCEPT ![p] = c]
          /\ IF ~OpensState(c)
             THEN /\ pc' = [pc EXCEPT ![p] = "done"]
                  /\ result' = [result EXCEPT ![p] = EnvResult(c)]
             ELSE /\ pc' = [pc EXCEPT ![p] =
                              IF WantsLock(c) THEN "is_locked" ELSE "load"]
                  /\ UNCHANGED result
    /\ pre' = [pre EXCEPT ![p] = IF track THEN file ELSE NoFile]
    /\ UNCHANGED <<file, lockfile, st, prev, broken, cacheVars, fnVars>>

\* the call has returned to its caller, which may make another
Again(p) ==
    /\ pc[p] = "done"
    /\ pc' = [pc EXCEPT ![p] = "idle"]
    /\ op' = [op EXCEPT ![p] = NoCall]
    /\ st' = [st EXCEPT ![p] = EmptyDoc]
    /\ prev' = [prev EXCEPT ![p] = EmptyDoc]
    /\ result' = [result EXCEPT ![p] = Pending]
    /\ pre' = [pre EXCEPT ![p] = NoFile]
    /\ UNCHANGED <<file, lockfile, broken, cacheVars, fnVars>>

(***************************************************************************)
(* State._lock_state_file, one step per file-system operation.             *)
(***************************************************************************)
\* self._lockfile.is_locked()
IsLocked(p) ==
    /\ pc[p] = "is_locked"
    /\ pc' = [pc EXCEPT ![p] =
                 IF lockfile.exists THEN "getmtime" ELSE "acquire"]
    /\ UNCHANGED <<file, lockfile, op, st, prev, result, pre, broken,
                   cacheVars, fnVars>>

\* the lock file is older than the staleness limit
IsStale(lf) == lf.age > StaleAfter

\* (time() - getmtime(self._lockfile.lock_file)) > 10; OSError when the lock
\* file has gone since is_locked(): it leaves __enter__, so no __exit__ runs
GetMtime(p) ==
    /\ pc[p] = "getmtime"
    /\ IF ~lockfile.exists
       THEN /\ pc' = [pc EXCEPT ![p] = "done"]
            /\ result' = [result EXCEPT ![p] = Raise("OSError")]
       ELSE /\ pc' = [pc EXCEPT ![p] =
                        IF IsStale(lockfile) THEN "break_lock"
                        ELSE "acquire"]
            /\ UNCHANGED result
    /\ UNCHANGED <<file, lockfile, op, st, prev, pre, broken, cacheVars, fnVars>>

\* self._lockfile.break_lock(): removes the lock file, whoever holds it now
BreakLock(p) ==
    /\ pc[p] = "break_lock"
    /\ lockfile' = NoLock
    /\ broken' = (broken \/ (lockfile.exists /\ lockfile.owner \in Procs
                                /\ pc[lockfile.owner] # "crashed"))
    /\ pc' = [pc EXCEPT ![p] = "acquire"]
    /\ UNCHANGED <<file, op, st, prev, result, pre, cacheVars, fnVars>>

\* CanAcquire that does not wait for the lock file to go
CanAcquire_Always(lf) == TRUE

\* self._lockfile.acquire(), no timeout: waits until the lock file can be made
CanAcquire(lf) == ~lf.exists

Acquire(p) ==
    /\ pc[p] = "acquire"
    /\ CanAcquire(lockfile)
    /\ lockfile' = [exists |-> TRUE, owner |-> p, age |-> 0]
    /\ pc' = [pc EXCEPT ![p] = "load"]
    /\ UNCHANGED <<file, op, st, prev, result, pre, broken, cacheVars, fnVars>>

(***************************************************************************)
(* State.__enter__ after the lock: load the file, keep a snapshot.         *)
(***************************************************************************)
\* StateEnter with the except clause left out: ValueError leaves __enter__
StateEnter_NoCatch(f) ==
    IF f.kind = "missing" THEN [doc |-> EmptyDoc, err |-> ""]
    ELSE LET r == load_json(f)
         IN  IF r.ok THEN [doc |-> r.doc, err |-> ""]
             ELSE [doc |-> EmptyDoc, err |-> "ValueError"]

\* self._state after __enter__, and the exception __enter__ lets out ("" for
\* none): {} when the file is missing (isfile is false) and when load_json
\* raised ValueError, which the except clause absorbs
StateEnter(f) ==
    IF f.kind = "missing" THEN [doc |-> EmptyDoc, err |-> ""]
    ELSE LET r == load_json(f)
         IN  IF r.ok THEN [doc |-> r.doc, err |-> ""]
             ELSE [doc |-> EmptyDoc, err |-> ""]

\* an exception out of __enter__ ends the call: the body and __exit__ never run
Load(p) ==
    /\ pc[p] = "load"
    /\ LET e == StateEnter(file)
       IN  IF e.err = ""
           THEN /\ st' = [st EXCEPT ![p] = e.doc]
                /\ prev' = [prev EXCEPT ![p] = e.doc]
                /\ pc' = [pc EXCEPT ![p] = "body"]
                /\ UNCHANGED result
           ELSE /\ result' = [result EXCEPT ![p] = Raise(e.err)]
                /\ pc' = [pc EXCEPT ![p] = "done"]
                /\ UNCHANGED <<st, prev>>
    /\ UNCHANGED <<file, lockfile, op, pre, broken, cacheVars, fnVars>>

(***************************************************************************)
(* The body of the with block of each call, on the mapping d.              *)
(***************************************************************************)
\* data['settings'] = {} when "settings" is not in data
WithSettings(d) ==
    IF d.hasSettings THEN d
    ELSE [d EXCEPT !.hasSettings = TRUE, !.settings = EmptyMap]

BodyDoc(c, d) ==
    CASE c.fn = "set_state_item" ->
            [d EXCEPT !.items = Put(@, c.name, c.value)]
      [] c.fn = "set_setting" ->
            LET s == sanitize_setting(c.name, c.value)
            IN  IF s.ok
                THEN [WithSettings(d) EXCEPT !.settings =
                                                 Put(@, c.name, s.value)]
                ELSE WithSettings(d)
      [] c.fn = "reset_settings" ->
            [d EXCEPT !.hasSettings = FALSE, !.settings = EmptyMap]
      [] OTHER -> d

BodyResult(c, d) ==
    CASE c.fn = "get_state_item" ->
            Return(IF c.name \in DOMAIN d.items THEN d.items[c.name]
                   ELSE c.default)
      [] c.fn = "get_setting" ->
            IF d.hasSettings /\ c.name \in DOMAIN d.settings
            THEN Return(d.settings[c.name])
            ELSE IF c.name \in DOMAIN DEFAULT_SETTINGS
                 THEN Return(DEFAULT_SETTINGS[c.name])
                 ELSE Raise("KeyError")
      [] c.fn = "set_setting" ->
            LET s == sanitize_setting(c.name, c.value)
            IN  IF s.ok THEN Return(PyNone) ELSE Raise(s.err)
      [] OTHER -> Return(PyNone)

Body(p) ==
    /\ pc[p] = "body"
    /\ st' = [st EXCEPT ![p] = BodyDoc(op[p], st[p])]
    /\ result' = [result EXCEPT ![p] = BodyResult(op[p], st[p])]
    /\ pc' = [pc EXCEPT ![p] = "exit"]
    /\ UNCHANGED <<file, lockfile, op, prev, pre, broken, cacheVars, fnVars>>

(***************************************************************************)
(* State.__exit__: runs when the body returned and when it raised.         *)
(***************************************************************************)
\* NeedsWrite comparing only the keys of the two mappings
NeedsWrite_KeysOnly(before, after, res) ==
    \/ DOMAIN before.items # DOMAIN after.items
    \/ before.hasSettings # after.hasSettings
    \/ DOMAIN before.settings # DOMAIN after.settings

\* NeedsWrite without the comparison: every release writes
NeedsWrite_Always(before, after, res) == TRUE

\* NeedsWrite skipped when the body raised
NeedsWrite_UnlessRaised(before, after, res) ==
    before # after /\ res.kind # "raise"

\* if self._prev_state != self._state
NeedsWrite(before, after, res) == before # after

AfterWrite(p) == IF WantsLock(op[p]) THEN "unlock" ELSE "done"

\* open(self.path, "w") truncates the file before anything is written
Exit(p) ==
    /\ pc[p] = "exit"
    /\ IF NeedsWrite(prev[p], st[p], result[p])
       THEN /\ file' = Garbage
            /\ pc' = [pc EXCEPT ![p] = "dump"]
       ELSE /\ pc' = [pc EXCEPT ![p] = AfterWrite(p)]
            /\ UNCHANGED file
    /\ UNCHANGED <<lockfile, op, st, prev, result, pre, broken, cacheVars, fnVars>>

\* json.dump(self._state, fp)
Dump(p) ==
    /\ pc[p] = "dump"
    /\ file' = json_dump(st[p])
    /\ pc' = [pc EXCEPT ![p] = AfterWrite(p)]
    /\ UNCHANGED <<lockfile, op, st, prev, result, pre, broken, cacheVars, fnVars>>

\* self._lockfile.release(): NotLocked when there is no lock file, NotMyLock
\* when another process holds it
Unlock(p) ==
    /\ pc[p] = "unlock"
    /\ IF lockfile.exists /\ lockfile.owner = p
       THEN /\ lockfile' = NoLock
            /\ UNCHANGED result
       ELSE /\ result' = [result EXCEPT ![p] =
                            Raise(IF lockfile.exists THEN "NotMyLock"
                                  ELSE "NotLocked")]
            /\ UNCHANGED lockfile
    /\ pc' = [pc EXCEPT ![p] = "done"]
    /\ UNCHANGED <<file, op, st, prev, pre, broken, cacheVars, fnVars>>

\* between a completed acquire() and the release in __exit__
InLockedScope(p) ==
    WantsLock(op[p]) /\ pc[p] \in {"load", "body", "exit", "dump", "unlock"}

\* the process dies inside its locked scope: its memory is gone, its lock
\* file stays behind
Crash(p) ==
    /\ InLockedScope(p)
    /\ pc' = [pc EXCEPT ![p] = "crashed"]
    /\ op' = [op EXCEPT ![p] = NoCall]
    /\ st' = [st EXCEPT ![p] = EmptyDoc]
    /\ prev' = [prev EXCEPT ![p] = EmptyDoc]
    /\ result' = [result EXCEPT ![p] = Pending]
    /\ UNCHANGED <<file, lockfile, pre, broken, cacheVars, fnVars>>

\* d seconds pass; ages beyond the staleness limit are not told apart
Older(age, d) == IF age + d > StaleAfter THEN StaleAfter + 1 ELSE age + d

Tick(d) ==
    /\ lockfile.exists
    /\ lockfile.age <= StaleAfter
    /\ lockfile' = [lockfile EXCEPT !.age = Older(@, d)]
    /\ UNCHANGED <<file, pc, op, st, prev, result, pre, broken, cacheVars, fnVars>>

Step(p) ==
    \/ IsLocked(p)
    \/ GetMtime(p)
    \/ BreakLock(p)
    \/ Acquire(p)
    \/ Load(p)
    \/ Body(p)
    \/ Exit(p)
    \/ Dump(p)
    \/ Unlock(p)

(***************************************************************************)
(* Spec: one process makes any sequence of calls on the state store.       *)
(***************************************************************************)
Caller == CHOOSE p \in Procs : \A q \in Procs : p <= q

Next ==
    \/ Start(Caller, Calls, TRUE)
    \/ Step(Caller)
    \/ Again(Caller)
    \/ Tick(1)

Spec == Init /\ [][Next]_vars

(***************************************************************************)
(* LockSpec: the processes each make one locked call on the same state     *)
(* file; a process may die inside its scope.                               *)
(***************************************************************************)
LockNext ==
    \/ \E p \in Procs : Start(p, LockCalls(p), FALSE)
    \/ \E p \in Procs : Step(p)
    \/ \E p \in Procs : Crash(p)
    \/ Tick(StaleAfter)

LockSpec == LockInit /\ [][LockNext]_vars

\* every started call keeps running, and time passes; calls need not start,
\* and processes need not die
FairLockSpec ==
    /\ LockSpec
    /\ \A p \in Procs : WF_vars(Step(p))
    /\ WF_vars(Tick(StaleAfter))

(***************************************************************************)
(* The locked writers when no process that is alive keeps the lock for     *)
(* more than StaleAfter seconds: the clock does not pass that age of the   *)
(* lock file while its owner lives.                                        *)
(***************************************************************************)
LiveHolder ==
    /\ lockfile.exists
    /\ lockfile.owner \in Procs
    /\ pc[lockfile.owner] # "crashed"

PromptTick(d) ==
    /\ ~(LiveHolder /\ Older(lockfile.age, d) > StaleAfter)
    /\ Tick(d)

PromptLockNext ==
    \/ \E p \in Procs : Start(p, LockCalls(p), FALSE)
    \/ \E p \in Procs : Step(p)
    \/ \E p \in Procs : Crash(p)
    \/ PromptTick(StaleAfter)

PromptLockSpec == LockInit /\ [][PromptLockNext]_vars

(***************************************************************************)
(* LocalCache.  One process calls set, get, clean and the sweep of         *)
(* __enter__ in any order while the clock advances.                        *)
(***************************************************************************)
\* the clock stops here
MaxNow == 1

PyDict(t) == [type |-> "dict", val |-> t]

\* the LocalCache object, which __enter__ returns
PySelf == [type |-> "LocalCache", val |-> <<>>]

Falsy_NoneOnly(v) == v.type = "none"

\* "if not data"
Falsy(v) ==
    \/ v.type = "none"
    \/ v = PyFalse
    \/ v.type = "int" /\ v.val = <<"0">>
    \/ v.type \in {"str", "list", "tuple", "dict"} /\ v.val = <<>>

DigitChars == <<"0", "1", "2", "3", "4", "5", "6", "7", "8", "9">>

DigitValue(c) == (CHOOSE i \in 1..Len(DigitChars) : DigitChars[i] = c) - 1

\* the number a text of digits, with an optional sign before it, stands for
RECURSIVE NatOfDigits(_)
NatOfDigits(t) ==
    IF t = <<>> THEN 0
    ELSE 10 * NatOfDigits(SubSeq(t, 1, Len(t) - 1)) + DigitValue(t[Len(t)])

NumberOfText(t) ==
    IF t # <<>> /\ Head(t) = "-" THEN 0 - NatOfDigits(Tail(t))
    ELSE NatOfDigits(t)

\* tdmap = {"s": 1, "m": 60, "h": 3600, "d": 86400}
tdmap == [d |-> 86400, s |-> 1, m |-> 60, h |-> 3600]

\* key[-2:]
LastTwo(key) == SubSeq(key, IF Len(key) > 2 THEN Len(key) - 1 ELSE 1, Len(key))

\* get_cache_path: join(self.cache_dir, key[-2:], key), after the assertion
\* len(key) > 3
get_cache_path(key) ==
    IF Len(key) > 3
    THEN [path |-> [name |-> key, dir |-> LastTwo(key)], ok |-> TRUE]
    ELSE [path |-> [name |-> key, dir |-> <<>>], ok |-> FALSE]

\* hashlib.md5().hexdigest() of the text fed to it, taken as free of
\* collisions: the digest of a text is the text under a mark
md5_hexdigest(t) == <<"m", "d", "5", ":">> \o t

\* h.update(str(data)) for each argument in turn: the text the digest is of
RECURSIVE Updated(_, _)
Updated(buf, args) ==
    IF args = <<>> THEN buf
    ELSE Updated(buf \o StrOf(Head(args)), Tail(args))

\* LocalCache.key_from_args(*args)
key_from_args(args) == md5_hexdigest(Updated(<<>>, args))

\* json.dump of a mapping ("{" members "}") or a sequence ("[" elements "]")
JsonText(v) ==
    IF v.type = "dict" THEN <<"{">> \o v.val \o <<"}">>
    ELSE <<"[">> \o v.val \o <<"]">>

\* the text set() writes: json.dump for a dict or a list, else str(data)
BlobText(v) == IF v.type \in {"dict", "list"} THEN JsonText(v) ELSE StrOf(v)

AllIn(t, S) == \A i \in 1..Len(t) : t[i] \in S

\* the JSON array elements the model reads: nothing, or one integer
IsJsonElements(t) == t = <<>> \/ AllIn(t, Digits)

\* the JSON object members the model reads: nothing, or one "name": integer
IsJsonMembers(t) ==
    \/ t = <<>>
    \/ \E n \in 2..(Len(t) - 3) :
          /\ t[1] = "\"" /\ t[n + 1] = "\""
          /\ n > 1 /\ AllIn(SubSeq(t, 2, n), {c \in Digits \cup
                                 {LowerLetters[i] : i \in 1..26} : TRUE})
          /\ t[n + 2] = ":" /\ t[n + 3] = " "
          /\ Len(t) > n + 3 /\ AllIn(SubSeq(t, n + 4, Len(t)), Digits)

\* json.loads(text) for a text that starts with "{" or "["
json_loads(t) ==
    LET inner == SubSeq(t, 2, Len(t) - 1)
    IN  IF Len(t) >= 2 /\ t[1] = "[" /\ t[Len(t)] = "]"
           /\ IsJsonElements(inner)
        THEN Return(PyList(inner))
        ELSE IF Len(t) >= 2 /\ t[1] = "{" /\ t[Len(t)] = "}"
                /\ IsJsonMembers(inner)
             THEN Return(PyDict(inner))
             ELSE Raise("ValueError")

\* LocalCache.get on the blob files b
CacheGet(b, key) ==
    LET cp == get_cache_path(key)
    IN  IF ~cp.ok THEN Raise("AssertionError")
        ELSE IF cp.path \notin DOMAIN b THEN Return(PyNone)
        ELSE LET data == b[cp.path]
             IN  IF data = <<>> THEN Raise("IndexError")
                 ELSE IF data[1] \in {"{", "["} THEN json_loads(data)
                 ELSE Return(PyStr(data))

Get_Evicting(key) ==
    /\ cres' = IF key \in DOMAIN expiry /\ expiry[key] <= now
               THEN Return(PyNone)
               ELSE CacheGet(blobs, key)
    /\ cop' = "get"
    /\ UNCHANGED <<now, root, dirs, blobs, index, expiry, stored, swept,
                   stateVars, fnVars>>

Get(key) ==
    /\ cres' = CacheGet(blobs, key)
    /\ cop' = "get"
    /\ UNCHANGED <<now, root, dirs, blobs, index, expiry, stored, swept,
                   stateVars, fnVars>>

\* how far LocalCache.set gets: "noop" (falsy data), "assert_valid",
\* "assert_key" (both before anything is written), "bad_magnitude" (int()
\* raises after the blob is written) or "stored"
SetOutcome(key, data, valid) ==
    IF Falsy(data) THEN "noop"
    ELSE IF valid = <<>> \/ valid[Len(valid)] \notin DOMAIN tdmap
         THEN "assert_valid"
    ELSE IF ~get_cache_path(key).ok THEN "assert_key"
    ELSE IF ~IntOfText(SubSeq(valid, 1, Len(valid) - 1)).ok
         THEN "bad_magnitude"
    ELSE "stored"

\* int(time() + tdmap[valid[-1]] * int(valid[:-1]))
ExpireTime(t, valid) ==
    t + tdmap[valid[Len(valid)]]
          * NumberOfText(IntOfText(SubSeq(valid, 1, Len(valid) - 1)).val)

IndexAfterSet_Append(idx, line) ==
    [exists |-> TRUE, lines |-> Append(idx.lines, line)]

\* the index set() leaves: one line, for the entry just written
IndexAfterSet(idx, line) == [exists |-> TRUE, lines |-> <<line>>]

Set(key, data, valid) ==
    LET out == SetOutcome(key, data, valid)
        path == get_cache_path(key).path
    IN  /\ cres' = CASE out = "noop" -> Return(PyNone)
                     [] out \in {"assert_valid", "assert_key"} ->
                           Raise("AssertionError")
                     [] out = "bad_magnitude" -> Raise("ValueError")
                     [] out = "stored" -> Return(PyTrue)
        /\ cop' = "set"
        /\ IF out \in {"bad_magnitude", "stored"}
           THEN /\ root' = TRUE
                /\ dirs' = dirs \cup {path.dir}
                /\ blobs' = Put(blobs, path, BlobText(data))
           ELSE UNCHANGED <<root, dirs, blobs>>
        /\ IF out = "stored"
           THEN /\ index' = IndexAfterSet(index,
                               [expire |-> ExpireTime(now, valid),
                                path |-> path])
                /\ expiry' = Put(expiry, key, ExpireTime(now, valid))
                /\ stored' = Put(stored, key, data)
                /\ swept' = swept \ {key}
           ELSE IF out = "bad_magnitude"
           THEN \* the blob of the earlier entry is overwritten: that entry
                \* is no more, and no new one is recorded
                /\ expiry' = [k \in (DOMAIN expiry) \ {key} |-> expiry[k]]
                /\ stored' = [k \in (DOMAIN stored) \ {key} |-> stored[k]]
                /\ swept' = swept \ {key}
                /\ UNCHANGED index
           ELSE UNCHANGED <<index, expiry, stored, swept>>
        /\ UNCHANGED <<now, stateVars, fnVars>>

(***************************************************************************)
(* LocalCache.__enter__: the sweep.  The lines are taken in order; a       *)
(* state of the sweep is [keep, found, blobs, dirs].                       *)
(***************************************************************************)
Live_Inclusive(line, t) == t <= line.expire

\* time() < int(expire)
Live(line, t) == t < line.expire

ShardEmpty_Never(b, shard) == FALSE

\* not len(listdir(dirname(path))): no blob file is left in the shard
ShardEmpty(b, shard) == \A q \in DOMAIN b : q.dir # shard

SweepLine(acc, line, t) ==
    IF Live(line, t) THEN [acc EXCEPT !.keep = Append(@, line)]
    ELSE IF line.path \in DOMAIN acc.blobs
         THEN LET b == [q \in (DOMAIN acc.blobs) \ {line.path} |->
                           acc.blobs[q]]
                  empty == ShardEmpty(b, line.path.dir)
              IN  [acc EXCEPT !.found = TRUE, !.blobs = b,
                              !.dirs = IF empty THEN @ \ {line.path.dir}
                                       ELSE @]
         ELSE [acc EXCEPT !.found = TRUE]

RECURSIVE SweepLines(_, _, _)
SweepLines(acc, lines, t) ==
    IF lines = <<>> THEN acc
    ELSE SweepLines(SweepLine(acc, Head(lines), t), Tail(lines), t)

Sweep ==
    /\ IF ~index.exists
       THEN UNCHANGED <<blobs, dirs, index>>
       ELSE LET r == SweepLines([keep |-> <<>>, found |-> FALSE,
                                 blobs |-> blobs, dirs |-> dirs],
                                index.lines, now)
            IN  /\ blobs' = r.blobs
                /\ dirs' = r.dirs
                /\ index' = IF r.found THEN [index EXCEPT !.lines = r.keep]
                            ELSE index
    /\ swept' = swept \cup {k \in DOMAIN expiry : expiry[k] <= now}
    /\ cres' = Return(PySelf)
    /\ cop' = "sweep"
    /\ UNCHANGED <<now, root, expiry, stored, stateVars, fnVars>>

\* LocalCache.clean: the whole cache directory goes, db.data with it
Clean ==
    /\ root' = FALSE
    /\ dirs' = {}
    /\ blobs' = EmptyMap
    /\ index' = NoIndex
    /\ expiry' = EmptyMap
    /\ stored' = EmptyMap
    /\ swept' = {}
    /\ cres' = Return(PyNone)
    /\ cop' = "clean"
    /\ UNCHANGED <<now, stateVars, fnVars>>

CacheTick ==
    /\ now < MaxNow
    /\ now' = now + 1
    /\ UNCHANGED <<root, dirs, blobs, index, cres, cop, expiry, stored, swept,
                   stateVars, fnVars>>

\* the arguments the model draws
Keys ==
    {<<"k", "1", "a", "b">>, <<"k", "2", "a", "b">>, <<"k", "3", "c", "d">>,
     <<"a", "b", "c">>}

Datas ==
    {PyDict(<<"\"", "k", "\"", ":", " ", "1">>), PyList(<<"1">>),
     PyStr(<<"a">>), PyStr(<<"[", "1", "]">>), PyStr(<<"{", "a">>),
     PyInt(<<"5">>), PyStr(<<>>), PyDict(<<>>), PyList(<<>>), PyInt(<<"0">>),
     PyNone}

\* well-formed validity strings: one that runs out while the model's clock
\* runs, one that does not
Valids == {<<"1", "s">>, <<"1", "m">>}

\* validity strings set() refuses: no unit, no magnitude
BadValids == {<<"5">>, <<"x", "s">>}

ShortKeys == {k \in Keys : Len(k) <= 3}

FirstKey == <<"k", "1", "a", "b">>

\* the set calls of the model: every data value and every refused validity
\* under the first key, every key that has a path with every well-formed
\* validity, a key that is too short, and empty data with every key and a
\* refused validity
SetCalls ==
    {<<FirstKey, d, <<"1", "s">>>> : d \in Datas}
    \cup {<<FirstKey, PyStr(<<"a">>), v>> : v \in BadValids}
    \cup {<<k, PyStr(<<"a">>), v>> : k \in Keys \ ShortKeys, v \in Valids}
    \cup {<<k, PyStr(<<"a">>), <<"1", "s">>>> : k \in ShortKeys}
    \cup {<<k, PyStr(<<>>), <<"5">>>> : k \in Keys}

CacheNext ==
    \/ \E c \in SetCalls : Set(c[1], c[2], c[3])
    \/ \E k \in Keys : Get(k)
    \/ Sweep
    \/ Clean
    \/ CacheTick

CacheStart ==
    /\ file = NoFile
    /\ lockfile = NoLock
    /\ InitLocals

CacheSpec == CacheStart /\ [][CacheNext]_vars

(***************************************************************************)
(* The pure functions.  A call is drawn at the start: key_from_args on two *)
(* argument lists, or sanitize_setting on a name and a value; one step     *)
(* makes the call.                                                         *)
(***************************************************************************)
\* the longest argument list drawn
MaxArgs == 2

ArgValues ==
    {PyStr(<<"a">>), PyStr(<<"b">>), PyStr(<<"a", "b">>), PyStr(<<"1">>),
     PyInt(<<"1">>)}

ArgLists == UNION {[1..n -> ArgValues] : n \in 0..MaxArgs}

SanitizeNames == {"enable_telemetry", "check_platformio_interval", "bogus"}

SanitizeValues ==
    {PyStr(<<"Y", "e", "s">>), PyStr(<<"y", "e", "s">>), PyStr(<<"Y">>),
     PyStr(<<"T", "R", "U", "E">>), PyStr(<<"n", "o">>), PyStr(<<"1">>),
     PyStr(<<" ", "y", "e", "s">>), PyStr(<<"1", "0">>),
     PyStr(<<" ", "1", "0", " ">>), PyStr(<<"-", "5">>),
     PyStr(<<"+", "0", "7">>), PyStr(<<"a", "b", "c">>), PyStr(<<>>),
     PyStr(<<"1", "0", "x">>), PyTrue, PyFalse, PyInt(<<"1">>),
     PyInt(<<"0">>), PyInt(<<"1", "0">>), PyNone, PyList(<<"1">>)}

FnInputs ==
    {<<"key_from_args", a, b>> : a \in ArgLists, b \in ArgLists}
    \cup {<<"sanitize_setting", n, v>> :
             n \in SanitizeNames, v \in SanitizeValues}

\* what sanitize_setting(name, value) returns or raises
SanitizeResult(name, value) ==
    LET s == sanitize_setting(name, value)
    IN  IF s.ok THEN Return(s.value) ELSE Raise(s.err)

\* the arguments of the exception sanitize_setting(name, value) raises:
\* InvalidSettingName(name), InvalidSettingValue(value, name)
SanitizeRaised(name, value) ==
    LET s == sanitize_setting(name, value)
    IN  IF s.ok THEN <<>>
        ELSE IF s.err = "InvalidSettingName" THEN <<name>>
        ELSE <<s.value, name>>

KeyFromArgs ==
    /\ fin[1] = "key_from_args"
    /\ fout = <<>>
    /\ fout' = <<key_from_args(fin[2]), key_from_args(fin[3])>>
    /\ UNCHANGED <<fin, stateVars, cacheVars>>

SanitizeSetting ==
    /\ fin[1] = "sanitize_setting"
    /\ fout = <<>>
    /\ fout' = <<SanitizeResult(fin[2], fin[3]), SanitizeRaised(fin[2], fin[3])>>
    /\ UNCHANGED <<fin, stateVars, cacheVars>>

FnInit ==
    /\ file = NoFile
    /\ lockfile = NoLock
    /\ StoreInit
    /\ CacheInit
    /\ fin \in FnInputs
    /\ fout = <<>>

FnNext == KeyFromArgs \/ SanitizeSetting

FnSpec == FnInit /\ [][FnNext]_vars

(***************************************************************************)
(* Properties of the state store, checked under Spec.                      *)
(***************************************************************************)
\* what get_state_item(name, default) returns on the state file f
GetStateItemOn(f, name, default) ==
    BodyResult(Call("get_state_item", name, PyNone, default, PyNone),
               StateEnter(f).doc)

Finished(p) == pc[p] = "done" /\ op[p] # NoCall

\* C1: once set_state_item(name, v) has returned for a JSON-compatible v,
\* get_state_item(name, default) on the state file returns v, whatever the
\* file held before the call (nothing, unparseable text, a document).
C1_RoundTrip ==
    \A p \in Procs :
        (/\ Finished(p)
         /\ op[p].fn = "set_state_item"
         /\ result[p].kind = "return"
         /\ JsonCompatible(op[p].value))
        => \A d \in Defaults :
              GetStateItemOn(file, op[p].name, d) = Return(op[p].value)

C1_Witness ==
    \E p \in Procs :
        /\ Finished(p)
        /\ op[p].fn = "set_state_item"
        /\ op[p].value = PyList(<<"1">>)
        /\ pre[p] = Garbage
        /\ GetStateItemOn(file, op[p].name, PyNone) = Return(PyList(<<"1">>))

\* C2: a State scope whose mapping is unchanged at release leaves the state
\* file as it was when the call started (missing stays missing, unparseable
\* stays unparseable), locked or not; get_state_item and get_setting never
\* change the file.
C2_NoWriteWhenUnchanged ==
    \A p \in Procs :
        /\ (pc[p] # "idle" /\ st[p] = prev[p]) => file = pre[p]
        /\ (pc[p] # "idle" /\ op[p].fn \in {"get_state_item", "get_setting"})
              => file = pre[p]

C2_Witness ==
    \E p \in Procs :
        /\ Finished(p)
        /\ op[p].fn = "reset_settings"
        /\ st[p] = prev[p]
        /\ pre[p] = Garbage
        /\ file = Garbage

\* C3: when a State scope has been released with a mapping that differs from
\* the snapshot taken on entry, the state file holds the serialized mapping,
\* whether the body returned or raised after changing the mapping.
C3_WriteBackOnEveryExit ==
    \A p \in Procs :
        (pc[p] \in {"unlock", "done"} /\ st[p] # prev[p])
        => file = json_dump(st[p])

C3_Witness ==
    \E p \in Procs :
        /\ Finished(p)
        /\ result[p].kind = "raise"
        /\ st[p] # prev[p]
        /\ file = json_dump(st[p])

\* C7: on an unparseable state file, entering a State scope raises nothing
\* and yields the empty mapping; get_state_item then returns its default, and
\* set_state_item(name, v) leaves a document with the single key name.
C7_MalformedAbsorbed ==
    \A p \in Procs :
        (pre[p] = Garbage /\ OpensState(op[p]))
        => /\ result[p].err # "ValueError"
           /\ pc[p] \in {"body", "exit", "dump", "unlock", "done"}
                 => prev[p] = EmptyDoc
           /\ (Finished(p) /\ op[p].fn = "get_state_item")
                 => result[p] = Return(op[p].default)
           /\ (Finished(p) /\ op[p].fn = "set_state_item")
                 => file = json_dump([EmptyDoc EXCEPT !.items =
                                 Put(EmptyMap, op[p].name, op[p].value)])

C7_Witness ==
    \E p \in Procs :
        /\ pre[p] = Garbage
        /\ Finished(p)
        /\ op[p].fn = "set_state_item"
        /\ result[p] = Return(PyNone)
        /\ file.kind = "object"
        /\ DOMAIN file.doc.items = {op[p].name}

\* C8 (as claimed): when set_setting raises a validation error, the state
\* file after the call equals the state file before it.
C8_RejectedSettingKeepsFile ==
    \A p \in Procs :
        (/\ Finished(p)
         /\ op[p].fn = "set_setting"
         /\ result[p].kind = "raise"
         /\ result[p].err \in {"InvalidSettingName", "InvalidSettingValue"})
        => file = pre[p]

(***************************************************************************)
(* Properties of the lock, checked under LockSpec and FairLockSpec.        *)
(***************************************************************************)
InScope == {p \in Procs : InLockedScope(p)}

Waiting(p) == pc[p] \in {"is_locked", "getmtime", "break_lock", "acquire"}

\* the lock file was left by a process that has died
HolderDead ==
    /\ lockfile.exists
    /\ lockfile.owner \in Procs => pc[lockfile.owner] = "crashed"

C5_OnlyStaleLocksBroken ==
    [][\A p \in Procs :
          /\ (pc[p] = "getmtime" /\ pc'[p] # "getmtime"
              /\ lockfile.exists /\ IsStale(lockfile))
                => pc'[p] = "break_lock"
          /\ (pc[p] = "break_lock" /\ pc'[p] = "acquire" /\ lockfile.exists)
                => IsStale(lockfile)]_vars

\* C6 (as claimed): an acquisition that starts while the lock file of a dead
\* holder exists acquires the lock eventually, however old the lock file is
\* then, also when the other processes do nothing from then on.
OthersQuiet(p) ==
    \A q \in Procs \ {p} : pc[q] \in {"idle", "done", "crashed"}

C6_EventuallyAcquires ==
    \A p \in Procs :
        []((pc[p] = "is_locked" /\ HolderDead /\ []OthersQuiet(p))
              => <>InLockedScope(p))

(***************************************************************************)
(* Properties of the locked writers, checked under PromptLockSpec.         *)
(***************************************************************************)
\* every process has made its call and the call is over
AllDone == \A p \in Procs : Finished(p)

\* a reader of the state file finds the value the call of p wrote
HoldsWriteOf(p) ==
    GetStateItemOn(file, op[p].name, PyNone) = Return(op[p].value)

\* C20: when two or more processes run set_state_item on different names
\* against one state file, in any interleaving in which no process keeps the
\* lock for more than 10 seconds, the state document has every written
\* value once all the calls are over.
C20_NoLostUpdate ==
    AllDone => \A p \in Procs : result[p].kind = "return" => HoldsWriteOf(p)

(***************************************************************************)
(* Properties of the cache, checked under CacheSpec.                       *)
(***************************************************************************)
\* a call the round trip is claimed for: a key longer than 3 characters,
\* non-empty data, a well-formed validity string
RoundTripCall(c) == Len(c[1]) > 3 /\ ~Falsy(c[2]) /\ c[3] \in Valids

\* C9: for every key longer than 3 characters, every non-empty data value
\* (a mapping, a sequence, a raw string, also one that starts with "{" or
\* "[", a scalar that is not a string) and every well-formed validity
\* string, get(key) right after set(key, data, valid) returns a value equal
\* to data.
C9_CacheRoundTrip ==
    [][\A c \in SetCalls :
          (RoundTripCall(c) /\ Set(c[1], c[2], c[3]))
             => CacheGet(blobs', c[1]) = Return(c[2])]_vars

\* C10: once the clock has passed the expiry of an entry stored by set and
\* a sweep has run after that, get(key) returns None for the entry and its
\* blob file is no longer on disk, whatever sets, gets and sweeps came
\* before, sets of other keys included.
C10_ExpiryEnforcedForEveryEntry ==
    \A k \in swept :
        /\ CacheGet(blobs, k) = Return(PyNone)
        /\ get_cache_path(k).path \notin DOMAIN blobs

\* the blob files a step deletes
Deleted == (DOMAIN blobs) \ (DOMAIN blobs')

\* the blob files the expired lines of the index name
ExpiredPaths ==
    {index.lines[i].path :
        i \in {j \in 1..Len(index.lines) : index.lines[j].expire <= now}}

\* no blob file is created or rewritten by the step
NoBlobWritten ==
    /\ DOMAIN blobs' \subseteq DOMAIN blobs
    /\ \A q \in DOMAIN blobs' : blobs'[q] = blobs[q]

\* C12: when a sweep deletes an expired blob and the blob's shard directory
\* is left with no file, the sweep deletes that directory; a sweep deletes,
\* creates and changes no other shard directory and no blob in one, and
\* deletes no shard directory that still holds a blob.
C12_ShardCleanup ==
    [][Sweep =>
          /\ \A q \in Deleted :
                (\A r \in DOMAIN blobs' : r.dir # q.dir) => q.dir \notin dirs'
          /\ dirs' \subseteq dirs
          /\ \A d \in dirs \ dirs' :
                /\ \E q \in Deleted : q.dir = d /\ q \in ExpiredPaths
                /\ \A r \in DOMAIN blobs' : r.dir # d
          /\ NoBlobWritten
          /\ \A q \in DOMAIN blobs :
                (\A e \in ExpiredPaths : e.dir # q.dir)
                   => q \in DOMAIN blobs' /\ q.dir \in dirs']_vars

\* a sweep has deleted the last blob of one shard, and with it the shard,
\* while another shard stays
C12_Witness ==
    /\ cop = "sweep"
    /\ \E k \in swept :
          /\ get_cache_path(k).path \notin DOMAIN blobs
          /\ get_cache_path(k).path.dir \notin dirs
    /\ dirs # {}

Unexpired(line) == now < line.expire

\* C18: a sweep deletes a blob only if a line of the index names it with
\* expiry <= now; every line with now < expiry is kept, in order, and so is
\* its blob; the index after the sweep lists exactly the lines that were
\* unexpired before it; when no line is expired the index is not rewritten
\* and nothing on disk changes.
C18_SweepKeepsLiveEntries ==
    [][Sweep =>
          /\ Deleted \subseteq ExpiredPaths
          /\ NoBlobWritten
          /\ \A i \in 1..Len(index.lines) :
                (Unexpired(index.lines[i])
                   /\ index.lines[i].path \in DOMAIN blobs)
                => index.lines[i].path \in DOMAIN blobs'
          /\ index'.exists = index.exists
          /\ index'.lines = SelectSeq(index.lines, Unexpired)
          /\ ExpiredPaths = {}
                => /\ index' = index
                   /\ blobs' = blobs
                   /\ dirs' = dirs
                   /\ root' = root]_vars

\* a sweep has run past a line of the index that is not expired, and the
\* line and its blob are there
C18_Witness ==
    /\ cop = "sweep"
    /\ now > 0
    /\ index.exists
    /\ index.lines # <<>>
    /\ \A i \in 1..Len(index.lines) :
          /\ now < index.lines[i].expire
          /\ index.lines[i].path \in DOMAIN blobs

\* the step leaves the cache directory as it was
DiskUnchanged == UNCHANGED <<root, dirs, blobs, index>>

\* the path of a key longer than 3 characters
PathOf(key) == [name |-> key, dir |-> SubSeq(key, Len(key) - 1, Len(key))]

\* C13: after clean(), get(key) returns None for every key stored before
\* and the index file is gone; a set(key, data, valid) that follows succeeds
\* and recreates the cache root, the shard directory, the blob and the
\* index, so that get(key) returns data.
C13_CleanResetsSetRebuilds ==
    [][/\ Clean =>
             /\ \A k \in DOMAIN stored : CacheGet(blobs', k) = Return(PyNone)
             /\ ~index'.exists
       /\ \A c \in SetCalls :
             (cop = "clean" /\ RoundTripCall(c) /\ Set(c[1], c[2], c[3]))
                => /\ cres' = Return(PyTrue)
                   /\ root'
                   /\ PathOf(c[1]).dir \in dirs'
                   /\ PathOf(c[1]) \in DOMAIN blobs'
                   /\ index'.exists
                   /\ CacheGet(blobs', c[1]) = Return(c[2])]_vars

\* empty string, empty mapping, empty sequence, None, 0
EmptyDatas ==
    {PyStr(<<>>), PyDict(<<>>), PyList(<<>>), PyNone, PyInt(<<"0">>)}

\* C15: set(key, data, valid) with empty data (empty string, empty mapping,
\* empty sequence, None, 0) leaves every blob, every shard directory and
\* the index file as they were, whatever the key and the validity string,
\* so get(key) returns what it returned before.
C15_SetEmptyDataIsNoOp ==
    [][\A c \in SetCalls :
          (c[2] \in EmptyDatas /\ Set(c[1], c[2], c[3]))
             => /\ DiskUnchanged
                /\ cres' = Return(PyNone)
                /\ \A k \in Keys : CacheGet(blobs', k) = CacheGet(blobs, k)]_vars

\* set() has returned without storing, and the value stored earlier under
\* the same key is there
C15_Witness ==
    /\ cop = "set"
    /\ cres = Return(PyNone)
    /\ FirstKey \in DOMAIN stored
    /\ PathOf(FirstKey) \in DOMAIN blobs

\* what get(key) returns while the entry set() stored is fresh
FreshResult(key) ==
    CacheGet(Put(EmptyMap, PathOf(key), BlobText(stored[key])), key)

\* an entry whose expiry time has come and which no sweep has seen since
ExpiredUnswept(key) ==
    key \in DOMAIN expiry /\ expiry[key] <= now /\ key \notin swept

\* C16: get(key) checks no expiry and changes nothing on disk; for an entry
\* whose expiry time has passed and for which no sweep has run since, it
\* still returns the stored data; it returns None exactly when there is no
\* blob file at the path of the key.
C16_LazyEvictionAtGet ==
    [][\A k \in Keys \ ShortKeys :
          Get(k) => /\ DiskUnchanged
                    /\ (cres' = Return(PyNone)) <=> (PathOf(k) \notin DOMAIN blobs)
                    /\ ExpiredUnswept(k) => /\ cres' = FreshResult(k)
                                            /\ cres' # Return(PyNone)]_vars

\* get() has returned the data of an entry that is past its expiry time
C16_Witness ==
    /\ cop = "get"
    /\ \E k \in Keys \ ShortKeys :
          /\ ExpiredUnswept(k)
          /\ cres = Return(stored[k])

\* tdmap[valid[-1]] * int(valid[:-1]) for the validity strings drawn
SecondsOf(valid) ==
    CASE valid = <<"1", "s">> -> 1
      [] valid = <<"1", "m">> -> 60

\* C17: after every set that stores data the index file is one line, the
\* expiry and the path of the entry just written, with expiry the integer
\* part of now + magnitude x unit-seconds; so from an empty cache the index
\* holds at most one entry in every state set, sweep and clean lead to.
C17_IndexCollapseOnSet ==
    [][/\ \A c \in SetCalls :
             (Set(c[1], c[2], c[3]) /\ cres' = Return(PyTrue))
                => /\ index'.exists
                   /\ index'.lines = <<[expire |-> now + SecondsOf(c[3]),
                                        path |-> PathOf(c[1])]>>
       /\ Len(index'.lines) <= 1]_vars

\* set() has stored an entry while the blob of another key is on disk
C17_Witness ==
    /\ cop = "set"
    /\ cres = Return(PyTrue)
    /\ Cardinality(DOMAIN blobs) >= 2
    /\ Len(index.lines) = 1

\* C19: when set(key, data, valid) with non-empty data fails on a
\* precondition (a key of 3 characters or less, a validity string without
\* the unit s, m, h or d at its end, a magnitude that is no integer), no
\* blob file and no shard directory is created or changed and the index
\* file is as it was, so get(key) returns what it returned before.
C19_FailedSetLeavesNoTrace ==
    [][\A c \in SetCalls :
          (Set(c[1], c[2], c[3]) /\ cres'.kind = "raise")
             => /\ DiskUnchanged
                /\ CacheGet(blobs', c[1]) = CacheGet(blobs, c[1])]_vars

(***************************************************************************)
(* Properties of the pure functions, checked under FnSpec.                 *)
(***************************************************************************)
\* the string forms of an argument list, in order
StrForms(args) == [i \in 1..Len(args) |-> StrOf(args[i])]

\* C11: the digest taken as free of collisions, two calls of key_from_args
\* return the same key when their ordered lists of argument string forms
\* are the same, and different keys when the lists differ in order, in the
\* number of arguments or in the string form of an argument.
C11_KeysDistinguishArgLists ==
    (fin[1] = "key_from_args" /\ fout # <<>>)
        => ((StrForms(fin[2]) = StrForms(fin[3])) <=> (fout[1] = fout[2]))

\* the settings of the catalog by the type of their default value
BoolSettings ==
    {"auto_update_platforms", "auto_update_libraries", "force_verbose",
     "enable_ssl", "enable_telemetry"}

IntSettings ==
    {"check_platformio_interval", "check_platforms_interval",
     "check_libraries_interval"}

\* the texts equal to the word w but for the case of their letters
SameButCase(t, w) ==
    /\ Len(t) = Len(w)
    /\ \A i \in 1..Len(w) :
          \/ t[i] = w[i]
          \/ \E j \in 1..Len(LowerLetters) :
                LowerLetters[j] = w[i] /\ UpperLetters[j] = t[i]

\* the lowercased string form of the value is one of true, yes, y, 1
SaysTrue(v) ==
    \E w \in {<<"t", "r", "u", "e">>, <<"y", "e", "s">>, <<"y">>, <<"1">>} :
        SameButCase(StrOf(v), w)

\* the texts int() reads: blanks, a sign or none, digits, blanks; i and j
\* are the ends of the digits
ReadsAsInt(t, i, j) ==
    /\ 1 <= i /\ i <= j /\ j <= Len(t)
    /\ \A n \in i..j : t[n] \in Digits
    /\ \A n \in (j + 1)..Len(t) : t[n] = " "
    /\ \/ \A n \in 1..(i - 1) : t[n] = " "
       \/ /\ i > 1 /\ t[i - 1] \in {"+", "-"}
          /\ \A n \in 1..(i - 2) : t[n] = " "

\* the integer such a text stands for
IntRead(t, i, j) ==
    IF i > 1 /\ t[i - 1] = "-" THEN 0 - NatOfDigits(SubSeq(t, i, j))
    ELSE NatOfDigits(SubSeq(t, i, j))

\* the result is the integer n
ReturnsInt(r, n) ==
    r.kind = "return" /\ r.val.type = "int" /\ NumberOfText(r.val.val) = n

\* C14: sanitize_setting raises the name-validation error for an unknown
\* name; for a boolean setting it returns a boolean unchanged and otherwise
\* True exactly when the lowercased string form of the value is one of
\* true, yes, y, 1; for an integer setting it returns the integer parsed
\* from the value, and raises the value-validation error, with the value
\* and the name, when the value does not parse as an integer.
C14_SanitizeByDeclaredType ==
    (fin[1] = "sanitize_setting" /\ fout # <<>>)
       => LET name == fin[2]
              v == fin[3]
              r == fout[1]
              t == v.val
              ends == {e \in (1..Len(t)) \X (1..Len(t)) :
                          v.type = "str" /\ ReadsAsInt(t, e[1], e[2])}
          IN  /\ name \notin BoolSettings \cup IntSettings
                 => r = Raise("InvalidSettingName") /\ fout[2] = <<name>>
              /\ name \in BoolSettings
                 => r = Return(IF v.type = "bool" THEN v
                               ELSE IF SaysTrue(v) THEN PyTrue ELSE PyFalse)
              /\ name \in IntSettings
                 => CASE v.type = "int" -> ReturnsInt(r, NumberOfText(t))
                      [] v.type = "bool" ->
                            ReturnsInt(r, IF v = PyTrue THEN 1 ELSE 0)
                      [] v.type = "str" /\ ends # {} ->
                            \A e \in ends : ReturnsInt(r, IntRead(t, e[1], e[2]))
                      [] OTHER ->
                            /\ r = Raise("InvalidSettingValue")
                            /\ fout[2] = <<v, name>>

\* sanitize_setting has turned a string in mixed case into True for a
\* boolean setting
C14_Witness ==
    /\ fin = <<"sanitize_setting", "enable_telemetry",
               PyStr(<<"Y", "e", "s">>)>>
    /\ fout # <<>>
    /\ fout[1] = Return(PyTrue)

=============================================================================
